---- MODULE Spec2Model ----
(***************************************************************************)
(* Vanity address search (token22_vanity): the CPU and Metal backends, the *)
(* coordinator loop of find_vanity_address / main, and the progress        *)
(* reporting thread, as a state machine.                                   *)
(*                                                                         *)
(* Text is a sequence of one-character strings.  A public key is the       *)
(* sequence of its 32 bytes; an address (Pubkey) is represented by its     *)
(* text, which is what the program compares and prints.                    *)
(***************************************************************************)
EXTENDS Integers, Sequences, FiniteSets, TLC

VARIABLES args, coord, stats, mon, sb, gpu, mt

vars == <<args, coord, stats, mon, sb, gpu, mt>>

-----------------------------------------------------------------------------
(* Bounds of the model.  BATCH_SIZE is the source's constant (lib.rs:21,   *)
(* 1_000_000) and NumLanes its grid size (metal.rs:10-11, 256 * 1024),     *)
(* both scaled down; nothing below depends on their values otherwise.      *)

BATCH_SIZE == 2

NumLanes == 2

MaxBatches == 2

NumCallers == 2

-----------------------------------------------------------------------------
(* Program constants.                                                      *)

SEED_LEN == 32

MAX_SEED_LEN == 32

KERNEL_SEED_BYTES == 4

RESULT_BUFFER_LEN == 32

PUBKEY_BYTES == 32

LOWER ==
  << "a","b","c","d","e","f","g","h","i","j","k","l","m",
     "n","o","p","q","r","s","t","u","v","w","x","y","z" >>

UPPER ==
  << "A","B","C","D","E","F","G","H","I","J","K","L","M",
     "N","O","P","Q","R","S","T","U","V","W","X","Y","Z" >>

DIGITS == << "0","1","2","3","4","5","6","7","8","9" >>

CHARSET == LOWER \o UPPER \o DIGITS

HEX_DIGITS ==
  << "0","1","2","3","4","5","6","7","8","9","a","b","c","d","e","f" >>

BASE58_ALPHABET ==
  << "1","2","3","4","5","6","7","8","9",
     "A","B","C","D","E","F","G","H","J","K","L","M","N","P","Q","R","S",
     "T","U","V","W","X","Y","Z",
     "a","b","c","d","e","f","g","h","i","j","k","m","n","o","p","q","r",
     "s","t","u","v","w","x","y","z" >>

None == [tag |-> "None"]

Some(v) == [tag |-> "Some", val |-> v]

-----------------------------------------------------------------------------
(* Text helpers.                                                           *)

IndexIn(c, alphabet) == CHOOSE i \in 1..Len(alphabet) : alphabet[i] = c

IsIn(c, alphabet) == \E i \in 1..Len(alphabet) : alphabet[i] = c

\* char::to_lowercase on the ASCII range the program's texts live in.
ToLowerChar(c) == IF IsIn(c, UPPER) THEN LOWER[IndexIn(c, UPPER)] ELSE c

\* str::to_lowercase
to_lowercase(s) == [i \in 1..Len(s) |-> ToLowerChar(s[i])]

\* str::starts_with: the pattern is compared with the first Len(p) characters.
starts_with(s, p) ==
  /\ Len(p) <= Len(s)
  /\ \A i \in 1..Len(p) : s[i] = p[i]

\* str::ends_with: the pattern is compared with the last Len(p) characters.
ends_with(s, p) ==
  /\ Len(p) <= Len(s)
  /\ \A i \in 1..Len(p) : s[Len(s) - Len(p) + i] = p[i]

\* Variant of matches_pattern that lower-cases the address but not the pattern.
matches_pattern_FoldsAddressOnly(address, pattern, case_insensitive, position) ==
  LET a == IF case_insensitive THEN to_lowercase(address) ELSE address
      p == pattern
  IN  CASE position = "start" -> starts_with(a, p)
        [] position = "end"   -> ends_with(a, p)
        [] OTHER              -> FALSE

\* lib.rs matches_pattern
matches_pattern(address, pattern, case_insensitive, position) ==
  LET a == IF case_insensitive THEN to_lowercase(address) ELSE address
      p == IF case_insensitive THEN to_lowercase(pattern) ELSE pattern
  IN  CASE position = "start" -> starts_with(a, p)
        [] position = "end"   -> ends_with(a, p)
        [] OTHER              -> FALSE

-----------------------------------------------------------------------------
(* Keys, seeds and derivation.                                             *)

\* The place in CHARSET of a text's k-th character (0 past its end).
CodeAt(text, k) == IF k \in 1..Len(text) THEN IndexIn(text[k], CHARSET) ELSE 0

\* A deterministic mixing of a base key and a seed into a natural number.
Mix(base, seed) ==
  base[1] + 3 * CodeAt(seed, 1) + 5 * CodeAt(seed, 2) + 7 * CodeAt(seed, Len(seed))

\* Keypair::new(): the public keys a run may draw (two of the 2^256).
BaseKeys == { [k \in 1..PUBKEY_BYTES |-> fill] : fill \in {0, 154} }

\* The texts of the addresses derivation can produce (five of them).
ADDRESS_TEXTS ==
  << <<"a","b","2">>, <<"A","2","b">>, <<"2","b","a">>, <<"b","a","B">>,
     <<"B","2","A">> >>

Ok(v) == [tag |-> "Ok", val |-> v]

Err(e) == [tag |-> "Err", err |-> e]

\* Pubkey::create_with_seed(base, seed, TOKEN_PROGRAM_ID): a seed longer than
\* MAX_SEED_LEN is rejected; otherwise the address is a hash of base, seed and
\* owner.  The hash (SHA-256) is stood in for by a fixed deterministic mixing
\* of base and seed into ADDRESS_TEXTS; the owner is the same in every call.
create_with_seed(base, seed) ==
  IF Len(seed) > MAX_SEED_LEN
  THEN Err("MaxSeedLengthExceeded")
  ELSE Ok(ADDRESS_TEXTS[(Mix(base, seed) % Len(ADDRESS_TEXTS)) + 1])

\* The draws rng.gen_range(0..CHARSET.len()) of one seed, position by
\* position: three of the 62^32 possible streams.
RngStreams ==
  { [k \in 1..SEED_LEN |-> (off * k + 7 * k * k) % Len(CHARSET)] : off \in {0, 1, 5} }

\* Variant of SeedOf whose range of positions includes its upper end.
SeedOf_InclusiveRange(idx) ==
  [k \in 1..(SEED_LEN + 1) |-> CHARSET[idx[((k - 1) % SEED_LEN) + 1] + 1]]

\* lib.rs:80-85: the seed a stream of draws yields.
SeedOf(idx) == [k \in 1..SEED_LEN |-> CHARSET[idx[k] + 1]]

Seeds == { SeedOf(idx) : idx \in RngStreams }

\* lib.rs:78-87: the batches one call may generate.
Batches == [1..BATCH_SIZE -> Seeds]

\* The derivation as search_batch meets it (lib.rs:92-96).  coord.rejects
\* holds the seeds the library turns down for a reason other than their
\* length; with the library as it is and TOKEN_PROGRAM_ID as owner there are
\* none (Init), and FaultInit makes the library turn one seed down, which is
\* what the Err arm at lib.rs:98-101 is written for.
Derive(base, seed) ==
  IF seed \in coord.rejects THEN Err("Rejected") ELSE create_with_seed(base, seed)

\* Variant of DerivePairs that gives up the rest of the batch at the first
\* seed the derivation rejects.
RECURSIVE DerivePairs_StopAtError(_, _)
DerivePairs_StopAtError(base, seeds) ==
  IF seeds = << >> THEN << >>
  ELSE LET r == Derive(base, Head(seeds))
       IN  IF r.tag = "Ok"
           THEN << <<Head(seeds), r.val>> >> \o DerivePairs_StopAtError(base, Tail(seeds))
           ELSE << >>

\* Vec order is kept by par_extend over the indexed seeds: the pairs of the
\* seeds whose derivation succeeded, in generation order.
RECURSIVE DerivePairs(_, _)
DerivePairs(base, seeds) ==
  IF seeds = << >> THEN << >>
  ELSE LET r == Derive(base, Head(seeds))
       IN  (IF r.tag = "Ok" THEN << <<Head(seeds), r.val>> >> ELSE << >>)
           \o DerivePairs(base, Tail(seeds))

\* lib.rs:109-120: the first pair, in order, whose address matches.
RECURSIVE FirstMatch(_, _, _, _)
FirstMatch(pairs, pattern, case_insensitive, position) ==
  IF pairs = << >> THEN None
  ELSE IF matches_pattern(Head(pairs)[2], pattern, case_insensitive, position)
       THEN Some(Head(pairs))
       ELSE FirstMatch(Tail(pairs), pattern, case_insensitive, position)

-----------------------------------------------------------------------------
(* The Metal kernel's and its host's pure parts.                           *)

\* Variant of KernelSeedHex that mixes the number of the dispatch into the
\* seed bytes.
KernelSeedHex_PerDispatch(tid) ==
  [i \in 1..(2 * KERNEL_SEED_BYTES) |->
     LET byte == (tid + coord.calls + ((i - 1) \div 2)) % 256
     IN  IF i % 2 = 1 THEN HEX_DIGITS[(byte \div 16) + 1]
                      ELSE HEX_DIGITS[(byte % 16) + 1]]

\* metal.rs:146-158: the lane's seed bytes and their hex text.
KernelSeedHex(tid) ==
  [i \in 1..(2 * KERNEL_SEED_BYTES) |->
     LET byte == (tid + ((i - 1) \div 2)) % 256
     IN  IF i % 2 = 1 THEN HEX_DIGITS[(byte \div 16) + 1]
                      ELSE HEX_DIGITS[(byte % 16) + 1]]

\* The ASCII code of a hex digit, as stored into the uchar result buffer.
AsciiOfHex(c) ==
  LET d == IndexIn(c, HEX_DIGITS) - 1
  IN  IF d < 10 THEN 48 + d ELSE 97 + (d - 10)

\* metal.rs:38-72,160-181: sha256_metal copies the first 32 bytes of its
\* input, which are the base public key, and encode_base58 writes two
\* characters per byte, indexed by the byte's nibbles.
DeviceAddressText(base) ==
  [i \in 1..(2 * PUBKEY_BYTES) |->
     LET byte == base[(i + 1) \div 2]
     IN  IF i % 2 = 1 THEN BASE58_ALPHABET[(byte \div 16) + 1]
                      ELSE BASE58_ALPHABET[(byte % 16) + 1]]

\* metal.rs:117-136
check_pattern_start(address, pattern, case_insensitive) ==
  \A i \in 1..Len(pattern) :
     IF case_insensitive
     THEN ToLowerChar(address[i]) = ToLowerChar(pattern[i])
     ELSE address[i] = pattern[i]

\* metal.rs:91-115
check_pattern_end(address, pattern, case_insensitive) ==
  /\ Len(address) >= Len(pattern)
  /\ \A i \in 1..Len(pattern) :
        LET a == address[Len(address) - Len(pattern) + i]
        IN  IF case_insensitive
            THEN ToLowerChar(a) = ToLowerChar(pattern[i])
            ELSE a = pattern[i]

\* metal.rs:183-186: the kernel's parameters are taken to be the call's
\* arguments, as the kernel's signature intends.
LaneMatches(base, pattern, case_insensitive, position) ==
  IF position = "end"
  THEN check_pattern_end(DeviceAddressText(base), pattern, case_insensitive)
  ELSE check_pattern_start(DeviceAddressText(base), pattern, case_insensitive)

\* hex::encode
hex_encode(bytes) ==
  [i \in 1..(2 * Len(bytes)) |->
     LET byte == bytes[(i + 1) \div 2]
     IN  IF i % 2 = 1 THEN HEX_DIGITS[(byte \div 16) + 1]
                      ELSE HEX_DIGITS[(byte % 16) + 1]]

ZeroBuffer == [i \in 1..RESULT_BUFFER_LEN |-> 0]

-----------------------------------------------------------------------------
(* State.                                                                  *)
(*   args   the caller's arguments and the entry point (lib.rs's           *)
(*          find_vanity_address or main.rs's main)                         *)
(*   coord  the coordinator: its place, base key, backend, the number of   *)
(*          backend calls made, the last call's result, what it printed    *)
(*          and what it returned; and the seeds the derivation library     *)
(*          rejects (see Derive)                                           *)
(*   stats  SearchStats: attempts and found                                *)
(*   mon    the progress reporting thread                                  *)
(*   sb     the CPU search_batch invocations, by calling thread            *)
(*   gpu    the Metal backend's call: device buffers and lanes, each lane  *)
(*          with its place and its seed_hex local                          *)
(*   mt     a direct call of matches_pattern (the unit test's shape)       *)

MainThread == "main"

Lanes == 0..(NumLanes - 1)

Patterns == { <<"a">>, <<"A","b">> }

Positions == {"start", "end", "middle"}

ArgSpace ==
  [pattern : Patterns, position : Positions, case_insensitive : BOOLEAN,
   use_gpu : BOOLEAN, entry : {"lib", "main"}]

IdleCall == [pc |-> "idle", seeds |-> << >>, addresses |-> << >>, ret |-> None]

IdleGpu ==
  [pc |-> "idle", found |-> FALSE, attempts |-> 0, result_seed |-> ZeroBuffer,
   lane |-> [l \in Lanes |-> "idle"], seed_hex |-> [l \in Lanes |-> << >>],
   ret |-> None]

IdleMatcher ==
  [pc |-> "idle", address |-> << >>, pattern |-> << >>,
   case_insensitive |-> FALSE, position |-> "start", out |-> FALSE]

NoBase == << >>

\* lib.rs:39-46 SearchStats::new
NewStats == [attempts |-> 0, found |-> FALSE]

NotSpawned == [pc |-> "unspawned", last_attempts |-> 0, samples |-> 0, late |-> 0]

Init ==
  /\ args \in ArgSpace
  /\ coord = [pc |-> "entry", base |-> NoBase, metal_device |-> "None",
              calls |-> 0, result |-> None, attempts |-> 0,
              printed |-> None, returned |-> None, rejects |-> {}]
  /\ stats = NewStats
  /\ mon = NotSpawned
  /\ sb = [t \in {MainThread} |-> IdleCall]
  /\ gpu = IdleGpu
  /\ mt = IdleMatcher

-----------------------------------------------------------------------------
(* The CPU backend: search_batch (lib.rs:62-123), called by thread t.      *)

\* Variant of SB_Check that does not look at the flag.
SB_Check_NoFastPath(t) ==
  /\ sb[t].pc = "check"
  /\ sb' = [sb EXCEPT ![t].pc = "generate"]
  /\ UNCHANGED <<args, coord, stats, mon, gpu, mt>>

\* lib.rs:69-71
SB_Check(t) ==
  /\ sb[t].pc = "check"
  /\ IF stats.found
     THEN sb' = [sb EXCEPT ![t].pc = "ret", ![t].ret = None]
     ELSE sb' = [sb EXCEPT ![t].pc = "generate"]
  /\ UNCHANGED <<args, coord, stats, mon, gpu, mt>>

\* lib.rs:74-88
SB_Generate(t) ==
  /\ sb[t].pc = "generate"
  /\ \E batch \in Batches :
        sb' = [sb EXCEPT ![t].pc = "derive", ![t].seeds = batch]
  /\ UNCHANGED <<args, coord, stats, mon, gpu, mt>>

\* The orders in which the pool's workers may get through a batch.
WorkerOrders == Permutations(1..BATCH_SIZE)

\* Variant of SB_Derive that appends each pair as its worker finishes.
SB_Derive_CompletionOrder(t) ==
  /\ sb[t].pc = "derive"
  /\ \E order \in WorkerOrders :
        sb' = [sb EXCEPT ![t].pc = "count",
                 ![t].addresses =
                    DerivePairs(coord.base,
                                [i \in 1..BATCH_SIZE |-> sb[t].seeds[order[i]]])]
  /\ UNCHANGED <<args, coord, stats, mon, gpu, mt>>

\* lib.rs:90-104: the workers derive the addresses in some order of their
\* own (order[k] is the index of the k-th candidate to be finished), and
\* par_extend puts the pairs into the Vec by their place in seeds.
SB_Derive(t) ==
  /\ sb[t].pc = "derive"
  /\ \E order \in WorkerOrders :
        sb' = [sb EXCEPT ![t].pc = "count",
                 ![t].addresses = DerivePairs(coord.base, sb[t].seeds)]
  /\ UNCHANGED <<args, coord, stats, mon, gpu, mt>>

\* Variant of SB_Count that counts the candidates up to the first match only.
SB_Count_ScannedOnly(t) ==
  /\ sb[t].pc = "count"
  /\ LET scanned ==
           { k \in 1..Len(sb[t].addresses) :
               \A j \in 1..(k - 1) :
                  ~matches_pattern(sb[t].addresses[j][2], args.pattern,
                                   args.case_insensitive, args.position) }
     IN  stats' = [stats EXCEPT !.attempts = @ + Cardinality(scanned)]
  /\ sb' = [sb EXCEPT ![t].pc = "scan"]
  /\ UNCHANGED <<args, coord, mon, gpu, mt>>

\* Variant of SB_Count in which the addition is made once more by a worker.
SB_Count_PerWorker(t) ==
  /\ sb[t].pc = "count"
  /\ stats' = [stats EXCEPT !.attempts = @ + BATCH_SIZE + BATCH_SIZE]
  /\ sb' = [sb EXCEPT ![t].pc = "scan"]
  /\ UNCHANGED <<args, coord, mon, gpu, mt>>

\* lib.rs:106 (the counter is a u64; the model's runs stay far below 2^64)
SB_Count(t) ==
  /\ sb[t].pc = "count"
  /\ stats' = [stats EXCEPT !.attempts = @ + BATCH_SIZE]
  /\ sb' = [sb EXCEPT ![t].pc = "scan"]
  /\ UNCHANGED <<args, coord, mon, gpu, mt>>

\* Variant of SB_Scan that returns the last pair of the batch on a match.
SB_Scan_LastPair(t) ==
  /\ sb[t].pc = "scan"
  /\ LET hit == FirstMatch(sb[t].addresses, args.pattern,
                           args.case_insensitive, args.position)
     IN  IF hit.tag = "Some"
         THEN /\ stats' = [stats EXCEPT !.found = TRUE]
              /\ sb' = [sb EXCEPT ![t].pc = "ret",
                          ![t].ret = Some(sb[t].addresses[Len(sb[t].addresses)])]
         ELSE /\ stats' = stats
              /\ sb' = [sb EXCEPT ![t].pc = "ret", ![t].ret = None]
  /\ UNCHANGED <<args, coord, mon, gpu, mt>>

\* lib.rs:108-122 (the call's batch is kept in view until the caller has
\* taken the result)
SB_Scan(t) ==
  /\ sb[t].pc = "scan"
  /\ LET hit == FirstMatch(sb[t].addresses, args.pattern,
                           args.case_insensitive, args.position)
     IN  IF hit.tag = "Some"
         THEN /\ stats' = [stats EXCEPT !.found = TRUE]
              /\ sb' = [sb EXCEPT ![t].pc = "ret", ![t].ret = hit]
         ELSE /\ stats' = stats
              /\ sb' = [sb EXCEPT ![t].pc = "ret", ![t].ret = None]
  /\ UNCHANGED <<args, coord, mon, gpu, mt>>

-----------------------------------------------------------------------------
(* The Metal backend: MetalDevice::search_batch (metal.rs:240-326) and the *)
(* search_addresses kernel (metal.rs:138-205), one lane per grid thread.   *)
(* The call has no statement that reads or writes its stats argument.      *)

\* metal.rs:249-298: fresh zero-filled buffers, then the dispatch.
G_Dispatch ==
  /\ gpu.pc = "encode"
  /\ gpu' = [IdleGpu EXCEPT !.pc = "running", !.lane = [l \in Lanes |-> "check"]]
  /\ UNCHANGED <<args, coord, stats, mon, sb, mt>>

\* metal.rs:142-144
L_Check(l) ==
  /\ gpu.pc = "running"
  /\ gpu.lane[l] = "check"
  /\ gpu' = [gpu EXCEPT !.lane[l] = IF gpu.found THEN "done" ELSE "add"]
  /\ UNCHANGED <<args, coord, stats, mon, sb, mt>>

\* metal.rs:146-190: the lane's candidate, its match, and the relaxed add.
L_Add(l) ==
  /\ gpu.pc = "running"
  /\ gpu.lane[l] = "add"
  /\ gpu' = [gpu EXCEPT
       !.attempts = @ + 1,
       !.seed_hex[l] = KernelSeedHex(l),
       !.lane[l] = IF LaneMatches(coord.base, args.pattern,
                                  args.case_insensitive, args.position)
                   THEN "cas" ELSE "done"]
  /\ UNCHANGED <<args, coord, stats, mon, sb, mt>>

\* Variant of L_Cas that sets the flag with a plain store.
L_Cas_PlainStore(l) ==
  /\ gpu.pc = "running"
  /\ gpu.lane[l] = "cas"
  /\ gpu' = [gpu EXCEPT !.found = TRUE, !.lane[l] = "write"]
  /\ UNCHANGED <<args, coord, stats, mon, sb, mt>>

\* metal.rs:191-198: a weak compare-exchange fails when the flag is set, and
\* may fail spuriously when it is not.
L_Cas(l) ==
  /\ gpu.pc = "running"
  /\ gpu.lane[l] = "cas"
  /\ \/ /\ ~gpu.found
        /\ gpu' = [gpu EXCEPT !.found = TRUE, !.lane[l] = "write"]
     \/ gpu' = [gpu EXCEPT !.lane[l] = "done"]
  /\ UNCHANGED <<args, coord, stats, mon, sb, mt>>

\* metal.rs:199-202
L_Write(l) ==
  /\ gpu.pc = "running"
  /\ gpu.lane[l] = "write"
  /\ gpu' = [gpu EXCEPT
       !.lane[l] = "done",
       !.result_seed = [i \in 1..RESULT_BUFFER_LEN |->
                          IF i <= 2 * KERNEL_SEED_BYTES
                          THEN AsciiOfHex(gpu.seed_hex[l][i])
                          ELSE gpu.result_seed[i]]]
  /\ UNCHANGED <<args, coord, stats, mon, sb, mt>>

\* Variant of G_Readback that keeps the first MAX_SEED_LEN characters of the
\* encoded seed, so that the derivation succeeds.
G_Readback_Truncating ==
  /\ gpu.pc = "running"
  /\ \A l \in Lanes : gpu.lane[l] = "done"
  /\ IF gpu.found
     THEN LET seed == SubSeq(hex_encode(gpu.result_seed), 1, MAX_SEED_LEN)
              address == Derive(coord.base, seed)
          IN  /\ gpu' = [gpu EXCEPT !.pc = "ret", !.ret = Some(<<seed, address.val>>)]
              /\ coord' = coord
     ELSE /\ gpu' = [gpu EXCEPT !.pc = "ret", !.ret = None]
          /\ coord' = coord
  /\ UNCHANGED <<args, stats, mon, sb, mt>>

\* metal.rs:299-325: wait_until_completed, then the read-back; unwrap panics
\* on a rejected seed.
G_Readback ==
  /\ gpu.pc = "running"
  /\ \A l \in Lanes : gpu.lane[l] = "done"
  /\ IF gpu.found
     THEN LET seed == hex_encode(gpu.result_seed)
              address == Derive(coord.base, seed)
          IN  IF address.tag = "Ok"
              THEN /\ gpu' = [gpu EXCEPT !.pc = "ret",
                                         !.ret = Some(<<seed, address.val>>)]
                   /\ coord' = coord
              ELSE /\ gpu' = [gpu EXCEPT !.pc = "panicked"]
                   /\ coord' = [coord EXCEPT !.pc = "panicked"]
     ELSE /\ gpu' = [gpu EXCEPT !.pc = "ret", !.ret = None]
          /\ coord' = coord
  /\ UNCHANGED <<args, stats, mon, sb, mt>>

-----------------------------------------------------------------------------
(* The progress reporting thread (lib.rs:176-195, main.rs:216-235).        *)
(* mon.late counts the samples taken when stats.found was already true.    *)

\* Variant of M_Check that never sees the flag.
M_Check_Deaf ==
  /\ mon.pc = "check"
  /\ mon' = [mon EXCEPT !.pc = "sleep"]
  /\ UNCHANGED <<args, coord, stats, sb, gpu, mt>>

\* lib.rs:180
M_Check ==
  /\ mon.pc = "check"
  /\ mon' = [mon EXCEPT !.pc = IF stats.found THEN "exit" ELSE "sleep"]
  /\ UNCHANGED <<args, coord, stats, sb, gpu, mt>>

\* Variant of M_Sample that swaps the counter to zero on reading it.
M_Sample_Resetting ==
  /\ mon.pc = "sleep"
  /\ mon' = [mon EXCEPT !.pc = "check",
                        !.last_attempts = stats.attempts,
                        !.late = IF stats.found THEN @ + 1 ELSE @]
  /\ stats' = [stats EXCEPT !.attempts = 0]
  /\ UNCHANGED <<args, coord, sb, gpu, mt>>

\* lib.rs:181-193: the sleep has elapsed; sample, report, remember.
M_Sample ==
  /\ mon.pc = "sleep"
  /\ mon' = [mon EXCEPT !.pc = "check",
                        !.last_attempts = stats.attempts,
                        !.late = IF stats.found THEN @ + 1 ELSE @]
  /\ UNCHANGED <<args, coord, stats, sb, gpu, mt>>

-----------------------------------------------------------------------------
(* The coordinator: find_vanity_address (lib.rs:125-261) and main          *)
(* (main.rs:163-310), which differ only where noted.                       *)

\* Variant of C_Validate without the position check.
C_Validate_AnyPosition ==
  /\ coord.pc = "entry"
  /\ coord' = [coord EXCEPT !.pc = "setup"]
  /\ UNCHANGED <<args, stats, mon, sb, gpu, mt>>

\* lib.rs:132-134, main.rs:167-169
C_Validate ==
  /\ coord.pc = "entry"
  /\ coord' = [coord EXCEPT !.pc =
        IF args.position # "start" /\ args.position # "end"
        THEN "err_invalid" ELSE "setup"]
  /\ UNCHANGED <<args, stats, mon, sb, gpu, mt>>

\* lib.rs:139-170: the base key, the statistics, and the backend; the Metal
\* device is tried once, when requested, and may or may not be there.  (The
\* global thread pool is built once per process: the first run's
\* build_global succeeds.)
C_Setup ==
  /\ coord.pc = "setup"
  /\ \E key \in BaseKeys :
       \E device \in (IF args.use_gpu THEN {"Some", "None"} ELSE {"None"}) :
          coord' = [coord EXCEPT !.pc = "spawn", !.base = key,
                                 !.metal_device = device]
  /\ stats' = NewStats
  /\ UNCHANGED <<args, mon, sb, gpu, mt>>

\* Variant of C_Spawn whose thread starts with last_attempts at one batch.
C_Spawn_AheadOfCounter ==
  /\ coord.pc = "spawn"
  /\ coord' = [coord EXCEPT !.pc = "loop"]
  /\ mon' = [NotSpawned EXCEPT !.pc = "check", !.last_attempts = BATCH_SIZE]
  /\ UNCHANGED <<args, stats, sb, gpu, mt>>

\* lib.rs:172-179: the thread starts with last_attempts = 0.
C_Spawn ==
  /\ coord.pc = "spawn"
  /\ coord' = [coord EXCEPT !.pc = "loop"]
  /\ mon' = [NotSpawned EXCEPT !.pc = "check"]
  /\ UNCHANGED <<args, stats, sb, gpu, mt>>

\* Variant of C_CallBackend that chooses the backend by the request, trying
\* the accelerator again on every turn.
C_CallBackend_Retrying ==
  /\ coord.pc = "loop"
  /\ coord.calls < MaxBatches
  /\ IF args.use_gpu
     THEN /\ coord' = [coord EXCEPT !.pc = "gpu_call", !.calls = @ + 1]
          /\ gpu' = [gpu EXCEPT !.pc = "encode"]
          /\ sb' = sb
     ELSE /\ coord' = [coord EXCEPT !.pc = "cpu_call", !.calls = @ + 1]
          /\ sb' = [sb EXCEPT ![MainThread].pc = "check"]
          /\ gpu' = gpu
  /\ UNCHANGED <<args, stats, mon, mt>>

\* lib.rs:198-217: one backend call per turn of the loop.
C_CallBackend ==
  /\ coord.pc = "loop"
  /\ coord.calls < MaxBatches
  /\ IF coord.metal_device = "Some"
     THEN /\ coord' = [coord EXCEPT !.pc = "gpu_call", !.calls = @ + 1]
          /\ gpu' = [gpu EXCEPT !.pc = "encode"]
          /\ sb' = sb
     ELSE /\ coord' = [coord EXCEPT !.pc = "cpu_call", !.calls = @ + 1]
          /\ sb' = [sb EXCEPT ![MainThread].pc = "check"]
          /\ gpu' = gpu
  /\ UNCHANGED <<args, stats, mon, mt>>

\* What the call in flight has returned, if it has.
Returned ==
  CASE coord.pc = "cpu_call" /\ sb[MainThread].pc = "ret" -> Some(sb[MainThread].ret)
    [] coord.pc = "gpu_call" /\ gpu.pc = "ret" -> Some(gpu.ret)
    [] OTHER -> None

\* lib.rs:219-221: nothing: loop; a match: elapsed time and attempts are read.
C_TakeResult ==
  /\ Returned # None
  /\ IF Returned.val = None
     THEN coord' = [coord EXCEPT !.pc = "loop"]
     ELSE coord' = [coord EXCEPT
            !.pc = IF args.entry = "main" THEN "verify" ELSE "report",
            !.result = Returned.val,
            !.attempts = stats.attempts]
  /\ sb' = [sb EXCEPT ![MainThread] = IdleCall]
  /\ gpu' = IdleGpu
  /\ UNCHANGED <<args, stats, mon, mt>>

\* main.rs:263-271 (main only): derive again and compare.
C_Verify ==
  /\ coord.pc = "verify"
  /\ LET token_address == Derive(coord.base, coord.result.val[1])
     IN  coord' = [coord EXCEPT !.pc =
           IF token_address.tag = "Err" THEN "err_derive"
           ELSE IF token_address.val # coord.result.val[2] THEN "assert_failed"
           ELSE "report"]
  /\ UNCHANGED <<args, stats, mon, sb, gpu, mt>>

\* lib.rs:223-243: the RESULT_START .. RESULT_END block.
C_Report ==
  /\ coord.pc = "report"
  /\ coord' = [coord EXCEPT !.pc = "persist",
        !.printed = Some([base_pubkey |-> coord.base,
                          seed |-> coord.result.val[1],
                          token_address |-> coord.result.val[2],
                          attempts |-> coord.attempts])]
  /\ UNCHANGED <<args, stats, mon, sb, gpu, mt>>

\* Variant of C_Persist that goes back to the search loop after saving.
C_Persist_NoReturn ==
  /\ coord.pc = "persist"
  /\ \E io_ok \in BOOLEAN :
       IF io_ok
       THEN coord' = [coord EXCEPT !.pc = "loop"]
       ELSE coord' = [coord EXCEPT !.pc = "err_io"]
  /\ UNCHANGED <<args, stats, mon, sb, gpu, mt>>

\* lib.rs:245-258, main.rs:295-305: create_dir_all and write may fail; on
\* success lib.rs returns the VanityAddressResult and main returns Ok(()).
C_Persist ==
  /\ coord.pc = "persist"
  /\ \E io_ok \in BOOLEAN :
       IF io_ok
       THEN coord' = [coord EXCEPT !.pc = "done",
              !.returned = IF args.entry = "lib"
                           THEN Some([base_pubkey |-> coord.base,
                                      seed |-> coord.result.val[1],
                                      token_address |-> coord.result.val[2],
                                      attempts |-> coord.attempts])
                           ELSE None]
       ELSE coord' = [coord EXCEPT !.pc = "err_io"]
  /\ UNCHANGED <<args, stats, mon, sb, gpu, mt>>

-----------------------------------------------------------------------------
(* The run of one coordinator with its monitor.                            *)

Next ==
  \/ C_Validate \/ C_Setup \/ C_Spawn \/ C_CallBackend \/ C_TakeResult
  \/ C_Verify \/ C_Report \/ C_Persist
  \/ SB_Check(MainThread) \/ SB_Generate(MainThread) \/ SB_Derive(MainThread)
  \/ SB_Count(MainThread) \/ SB_Scan(MainThread)
  \/ G_Dispatch \/ G_Readback
  \/ \E l \in Lanes : L_Check(l) \/ L_Add(l) \/ L_Cas(l) \/ L_Write(l)
  \/ M_Check \/ M_Sample

Spec == Init /\ [][Next]_vars

\* The monitor is an operating-system thread: it is scheduled again and again.
FairSpec == Spec /\ WF_vars(M_Check) /\ WF_vars(M_Sample)

-----------------------------------------------------------------------------
(* NumCallers threads calling search_batch once each, concurrently, on one *)
(* SearchStats (lib.rs:62-123 under the spec's at-most-one-winner test).   *)

Callers == 1..NumCallers

ConcInit ==
  /\ args \in {a \in ArgSpace : ~a.use_gpu /\ a.entry = "lib"}
  /\ \E key \in BaseKeys :
       coord = [pc |-> "harness", base |-> key, metal_device |-> "None",
                calls |-> 0, result |-> None, attempts |-> 0,
                printed |-> None, returned |-> None, rejects |-> {}]
  /\ stats = NewStats
  /\ mon = NotSpawned
  /\ sb = [t \in Callers |-> [IdleCall EXCEPT !.pc = "check"]]
  /\ gpu = IdleGpu
  /\ mt = IdleMatcher

ConcNext ==
  \E t \in Callers :
    SB_Check(t) \/ SB_Generate(t) \/ SB_Derive(t) \/ SB_Count(t) \/ SB_Scan(t)

ConcSpec == ConcInit /\ [][ConcNext]_vars

-----------------------------------------------------------------------------
(* One search_batch call entered on a SearchStats that an earlier call has *)
(* used: untouched, counted without a match, or counted with the match     *)
(* found (lib.rs:62-123; the states are those ConcSpec's callers leave).   *)

UsedStats ==
  { NewStats,
    [attempts |-> BATCH_SIZE, found |-> FALSE],
    [attempts |-> BATCH_SIZE, found |-> TRUE] }

EntryInit ==
  /\ args \in {a \in ArgSpace : ~a.use_gpu /\ a.entry = "lib"}
  /\ \E key \in BaseKeys :
       coord = [pc |-> "harness", base |-> key, metal_device |-> "None",
                calls |-> 0, result |-> None, attempts |-> 0,
                printed |-> None, returned |-> None, rejects |-> {}]
  /\ stats \in UsedStats
  /\ mon = NotSpawned
  /\ sb = [t \in {MainThread} |-> [IdleCall EXCEPT !.pc = "check"]]
  /\ gpu = IdleGpu
  /\ mt = IdleMatcher

EntryNext ==
  \/ SB_Check(MainThread) \/ SB_Generate(MainThread) \/ SB_Derive(MainThread)
  \/ SB_Count(MainThread) \/ SB_Scan(MainThread)

EntrySpec == EntryInit /\ [][EntryNext]_vars

-----------------------------------------------------------------------------
(* A CPU run in which the derivation library turns one seed down.          *)

FaultInit ==
  /\ args \in {a \in ArgSpace : ~a.use_gpu}
  /\ \E bad \in Seeds :
       coord = [pc |-> "entry", base |-> NoBase, metal_device |-> "None",
                calls |-> 0, result |-> None, attempts |-> 0,
                printed |-> None, returned |-> None, rejects |-> {bad}]
  /\ stats = NewStats
  /\ mon = NotSpawned
  /\ sb = [t \in {MainThread} |-> IdleCall]
  /\ gpu = IdleGpu
  /\ mt = IdleMatcher

FaultNext ==
  \/ C_Validate \/ C_Setup \/ C_Spawn \/ C_CallBackend \/ C_TakeResult
  \/ C_Verify \/ C_Report \/ C_Persist
  \/ SB_Check(MainThread) \/ SB_Generate(MainThread) \/ SB_Derive(MainThread)
  \/ SB_Count(MainThread) \/ SB_Scan(MainThread)
  \/ M_Check \/ M_Sample

FaultSpec == FaultInit /\ [][FaultNext]_vars

-----------------------------------------------------------------------------
(* matches_pattern called directly on bounded texts (main.rs:316-322).     *)

MaxAddressLen == 3

MaxPatternLen == 2

TextAlphabet == {"a", "A", "b"}

TextsUpTo(n) == UNION { [1..k -> TextAlphabet] : k \in 0..n }

MatcherInit ==
  /\ mt \in [pc : {"call"}, address : TextsUpTo(MaxAddressLen),
             pattern : TextsUpTo(MaxPatternLen), case_insensitive : BOOLEAN,
             position : Positions, out : {FALSE}]
  /\ args = [pattern |-> << >>, position |-> "start", case_insensitive |-> FALSE,
             use_gpu |-> FALSE, entry |-> "lib"]
  /\ coord = [pc |-> "unused", base |-> NoBase, metal_device |-> "None",
              calls |-> 0, result |-> None, attempts |-> 0,
              printed |-> None, returned |-> None, rejects |-> {}]
  /\ stats = NewStats
  /\ mon = NotSpawned
  /\ sb = [t \in {MainThread} |-> IdleCall]
  /\ gpu = IdleGpu

MT_Call ==
  /\ mt.pc = "call"
  /\ mt' = [mt EXCEPT !.pc = "ret",
       !.out = matches_pattern(mt.address, mt.pattern, mt.case_insensitive,
                               mt.position)]
  /\ UNCHANGED <<args, coord, stats, mon, sb, gpu>>

MatcherNext == MT_Call

MatcherSpec == MatcherInit /\ [][MatcherNext]_vars

-----------------------------------------------------------------------------
(* Properties.                                                             *)

\* C1 (ConcSpec): once every concurrent search_batch call on the shared
\* statistics has returned, at most one of them has returned a match.
C1_AtMostOneWinner ==
  (\A t \in Callers : sb[t].pc = "ret")
    => Cardinality({t \in Callers : sb[t].ret # None}) <= 1

\* The backend calls that have passed their fetch_add.
CountedCalls ==
  coord.calls -
    (IF sb[MainThread].pc \in {"check", "generate", "derive", "count"} THEN 1 ELSE 0)

\* C2 (Spec): on the CPU backend stats.attempts never decreases, changes only
\* by a call's single addition of BATCH_SIZE, and equals BATCH_SIZE times the
\* number of calls that have generated and counted their batch: k * B after
\* k completed batches.
C2_AttemptsExact ==
  /\ [](coord.metal_device = "None" => stats.attempts = BATCH_SIZE * CountedCalls)
  /\ [][stats'.attempts >= stats.attempts]_vars
  /\ [][stats'.attempts # stats.attempts
          => /\ stats'.attempts = stats.attempts + BATCH_SIZE
             /\ sb[MainThread].pc = "count"
             /\ sb'[MainThread].pc = "scan"]_vars

C2_Witness ==
  /\ coord.pc = "loop"
  /\ coord.calls = 2
  /\ ~stats.found
  /\ stats.attempts = 2 * BATCH_SIZE

\* C3 (Spec): with a position that is neither "start" nor "end" the run goes
\* from its entry to the InvalidArgument error only: no base key, no monitor,
\* no backend call, no batch, and the attempt counter is 0.
C3_InvalidPositionRejected ==
  args.position \notin {"start", "end"}
    => /\ coord.pc \in {"entry", "err_invalid"}
       /\ coord.base = NoBase
       /\ mon.pc = "unspawned"
       /\ coord.calls = 0
       /\ sb[MainThread] = IdleCall
       /\ gpu = IdleGpu
       /\ stats.attempts = 0

C3_Witness == args.position = "middle" /\ coord.pc = "err_invalid"

\* The operands as compared: lower-cased when case-insensitive is set.
Folded(text, case_insensitive) ==
  IF case_insensitive THEN to_lowercase(text) ELSE text

\* C4 (MatcherSpec): with "start" the result is true exactly when the folded
\* address is the folded pattern followed by some text, with "end" exactly
\* when it is some text followed by the folded pattern.
C4_MatcherCorrect ==
  mt.pc = "ret" =>
    LET a == Folded(mt.address, mt.case_insensitive)
        p == Folded(mt.pattern, mt.case_insensitive)
    IN  /\ mt.position = "start" =>
             (mt.out <=> \E rest \in TextsUpTo(MaxAddressLen) : a = p \o rest)
        /\ mt.position = "end" =>
             (mt.out <=> \E rest \in TextsUpTo(MaxAddressLen) : a = rest \o p)

C4_Witness ==
  /\ mt.pc = "ret"
  /\ mt.out
  /\ mt.position = "end"
  /\ mt.case_insensitive
  /\ Len(mt.pattern) = 2
  /\ Len(mt.address) = 3
  /\ to_lowercase(mt.pattern) # mt.pattern
  /\ SubSeq(mt.address, 2, 3) # mt.pattern

\* A reported or returned result is sound for this run.
SoundResult(r) ==
  /\ r.base_pubkey = coord.base
  /\ create_with_seed(coord.base, r.seed) = Ok(r.token_address)
  /\ matches_pattern(r.token_address, args.pattern, args.case_insensitive,
                     args.position)

\* C5 (Spec): whatever the coordinator prints or returns as its result has
\* the address derived from this run's base key and the reported seed, and
\* that address matches the run's pattern; main's assertion never fails.
C5_ResultSound ==
  /\ coord.printed # None => SoundResult(coord.printed.val)
  /\ coord.returned # None => SoundResult(coord.returned.val)
  /\ coord.pc # "assert_failed"

C5_Witness ==
  /\ coord.pc = "done"
  /\ coord.returned # None
  /\ coord.calls = 2

\* The spec's three states, by the coordinator's place; a run that fails
\* stays in the state it failed in.
Phase ==
  CASE coord.pc \in {"entry", "setup", "spawn", "err_invalid"} -> "INITIALIZING"
    [] coord.pc \in {"loop", "cpu_call", "gpu_call", "panicked"} -> "SEARCHING"
    [] OTHER -> "DONE"

CallInFlight == sb[MainThread].pc # "idle" \/ gpu.pc # "idle"

\* C6 (Spec): the run moves only INITIALIZING -> SEARCHING -> DONE; a backend
\* call is in flight only in SEARCHING, and a new one starts only when none
\* is; DONE is entered only with the match a backend call returned; what was
\* printed and returned never changes; DONE is never left and no backend
\* call follows it.
C6_StateMachine ==
  /\ [][Phase' # Phase =>
          \/ Phase = "INITIALIZING" /\ Phase' = "SEARCHING"
          \/ Phase = "SEARCHING" /\ Phase' = "DONE"]_vars
  /\ [](CallInFlight => Phase = "SEARCHING")
  /\ [](~(sb[MainThread].pc # "idle" /\ gpu.pc # "idle"))
  /\ [][coord'.calls # coord.calls =>
          ~CallInFlight /\ coord'.calls = coord.calls + 1]_vars
  /\ [][Phase = "SEARCHING" /\ Phase' = "DONE" =>
          /\ Returned # None
          /\ Returned.val # None
          /\ coord'.result = Returned.val]_vars
  /\ [][coord.printed # None => coord'.printed = coord.printed]_vars
  /\ [][coord.returned # None => coord'.returned = coord.returned]_vars
  /\ [][Phase = "DONE" =>
          /\ Phase' = "DONE"
          /\ coord'.calls = coord.calls
          /\ coord'.result = coord.result
          /\ ~CallInFlight']_vars

C6_Witness ==
  /\ coord.pc = "done"
  /\ coord.calls = 2
  /\ coord.printed # None

\* The run has ended: it returned, failed, or panicked.
RunEnded ==
  coord.pc \in {"done", "err_io", "err_derive", "assert_failed", "panicked"}

\* C7 (Spec): a run that got past its argument check ends only with a match
\* that a backend call returned to the coordinator.
C7_EndsOnlyWithMatch == RunEnded => coord.result # None

\* C8 (FairSpec): when the coordinator has returned its result the found
\* flag the monitor watches is true, and the monitor then exits.
C8_MonitorShutdown ==
  /\ [](coord.pc = "done" => stats.found)
  /\ (coord.pc = "done") ~> (mon.pc = "exit")

C8_Witness == coord.pc = "done" /\ stats.found /\ mon.pc = "exit"

\* C9 as claimed (Spec): no monitor step samples stats.attempts in a state
\* where stats.found is already true.
C9_NoSampleAfterFound ==
  [][stats.found => ~(mon.pc = "sleep" /\ mon'.pc = "check")]_vars

\* C9 as amended (Spec): at most one sample is taken after stats.found has
\* become true, and a check of the flag that finds it true ends the loop.
C9_AtMostOneLateSample ==
  /\ [](mon.late <= 1)
  /\ [][stats.found /\ mon.pc = "check" =>
          mon'.pc \in {"check", "exit"}]_vars
  /\ [][mon.pc = "exit" => mon' = mon]_vars

C9_Witness == mon.late = 1 /\ mon.pc = "exit"

\* A step of the run without its monitor.
StepWithoutMonitor ==
  \/ C_Validate \/ C_Setup \/ C_CallBackend \/ C_TakeResult
  \/ C_Verify \/ C_Report \/ C_Persist
  \/ SB_Check(MainThread) \/ SB_Generate(MainThread) \/ SB_Derive(MainThread)
  \/ SB_Count(MainThread) \/ SB_Scan(MainThread)
  \/ G_Dispatch \/ G_Readback
  \/ \E l \in Lanes : L_Check(l) \/ L_Add(l) \/ L_Cas(l) \/ L_Write(l)
  \/ (coord.pc = "spawn" /\ coord' = [coord EXCEPT !.pc = "loop"]
        /\ UNCHANGED <<args, stats, sb, gpu, mt>>)

\* C10 (Spec): a monitor step changes neither stats.attempts nor stats.found,
\* and every step of the run is a step of the run without the monitor or
\* changes nothing but the monitor's own locals, so the coordinator's
\* outcomes are those of the run without the monitor.
C10_MonitorPureObserver ==
  /\ [][mon' # mon /\ mon.pc # "unspawned" => stats' = stats]_vars
  /\ [][StepWithoutMonitor \/ UNCHANGED <<args, coord, stats, sb, gpu, mt>>]_vars

C10_Witness ==
  /\ coord.pc = "done"
  /\ mon.last_attempts = BATCH_SIZE
  /\ coord.attempts = 2 * BATCH_SIZE

\* C11 (Spec): when a Metal search_batch call has returned, the run's
\* stats.attempts has grown by the number of candidates its dispatch
\* evaluated (after the first call it equals that number, and it is never
\* below the last dispatch's count), and a returned match comes with
\* stats.found true.
C11_GpuSharesStats ==
  (coord.pc = "gpu_call" /\ gpu.pc = "ret") =>
    /\ stats.attempts >= gpu.attempts
    /\ coord.calls = 1 => stats.attempts = gpu.attempts
    /\ gpu.ret # None => stats.found

\* The fields of a result, all filled in.
Populated(r) ==
  /\ DOMAIN r = {"base_pubkey", "seed", "token_address", "attempts"}
  /\ r.base_pubkey # NoBase
  /\ r.seed # << >>
  /\ r.token_address # << >>
  /\ r.attempts > 0

C13_FastPathExit ==
  /\ [][stats.found /\ sb[MainThread].pc = "check"
          => /\ sb'[MainThread].pc = "ret"
             /\ sb'[MainThread].ret = None
             /\ sb'[MainThread].seeds = << >>
             /\ sb'[MainThread].addresses = << >>
             /\ stats' = stats]_vars
  /\ [][sb[MainThread].pc = "ret" /\ sb[MainThread].seeds = << >>
          => stats' = stats /\ sb' = sb]_vars

C13_Witness ==
  /\ sb[MainThread].pc = "ret"
  /\ sb[MainThread].ret = None
  /\ sb[MainThread].seeds = << >>
  /\ stats = [attempts |-> BATCH_SIZE, found |-> TRUE]

\* The generation indices of the coordinator's call whose seed the derivation
\* accepts and whose address matches the run's pattern.
Hits ==
  { i \in 1..Len(sb[MainThread].seeds) :
      LET r == Derive(coord.base, sb[MainThread].seeds[i])
      IN  /\ r.tag = "Ok"
          /\ matches_pattern(r.val, args.pattern, args.case_insensitive,
                             args.position) }

\* The candidate at generation index i, as search_batch returns candidates.
CandidateAt(i) ==
  << sb[MainThread].seeds[i], Derive(coord.base, sb[MainThread].seeds[i]).val >>

\* C14 (Spec): a call that went through its batch returns the candidate with
\* the smallest index among the matching ones, in whatever order the workers
\* derived them, and nothing when there is none; its scan step turns stats.found to true exactly when it returns a
\* candidate and otherwise leaves stats as it was.
C14_FirstMatchInOrder ==
  /\ [](sb[MainThread].pc = "ret" /\ sb[MainThread].seeds # << >> =>
          IF Hits = {}
          THEN sb[MainThread].ret = None
          ELSE \E i \in Hits :
                  /\ \A j \in Hits : i <= j
                  /\ sb[MainThread].ret = Some(CandidateAt(i)))
  /\ [][sb[MainThread].pc = "scan" /\ sb'[MainThread].pc = "ret" =>
          /\ stats'.attempts = stats.attempts
          /\ stats'.found = (stats.found \/ sb'[MainThread].ret # None)
          /\ ~stats.found]_vars

C14_Witness ==
  /\ coord.pc = "cpu_call"
  /\ sb[MainThread].pc = "ret"
  /\ Hits = {1, 2}
  /\ sb[MainThread].seeds[1] # sb[MainThread].seeds[2]
  /\ sb[MainThread].ret = Some(CandidateAt(1))
  /\ stats.found

\* The generation indices of the coordinator's call whose seed the derivation
\* accepts.
Accepted ==
  { i \in 1..Len(sb[MainThread].seeds) :
      Derive(coord.base, sb[MainThread].seeds[i]).tag = "Ok" }

\* The place among the derived pairs of the accepted candidate i.
Rank(i) == Cardinality({ j \in Accepted : j <= i })

\* C15 (FaultSpec): in a batch with a seed the derivation rejects, the pairs
\* handed to the scan are exactly the accepted candidates in generation
\* order; a rejected seed is never returned, and a matching candidate after
\* it still is; the call adds BATCH_SIZE to stats.attempts as any other; and
\* the coordinator sees no derivation error.
C15_DerivationFailureLocal ==
  /\ [](sb[MainThread].pc \in {"count", "scan", "ret"}
          /\ sb[MainThread].seeds # << >> =>
            /\ Len(sb[MainThread].addresses) = Cardinality(Accepted)
            /\ \A i \in Accepted :
                  sb[MainThread].addresses[Rank(i)] = CandidateAt(i))
  /\ [](sb[MainThread].pc = "ret" /\ sb[MainThread].seeds # << >> =>
          /\ sb[MainThread].ret # None =>
               /\ sb[MainThread].ret.val[1] \notin coord.rejects
               /\ \E i \in Hits : sb[MainThread].ret.val = CandidateAt(i)
          /\ Hits # {} => sb[MainThread].ret # None
          /\ stats.attempts = BATCH_SIZE * coord.calls)
  /\ [][sb[MainThread].pc = "count" /\ sb'[MainThread].pc # "count" =>
          /\ sb'[MainThread].pc = "scan"
          /\ stats'.attempts = stats.attempts + BATCH_SIZE]_vars
  /\ [](coord.pc \notin {"err_derive", "assert_failed", "panicked"})

C15_Witness ==
  /\ coord.pc = "cpu_call"
  /\ sb[MainThread].pc = "ret"
  /\ sb[MainThread].seeds[1] \in coord.rejects
  /\ matches_pattern(create_with_seed(coord.base, sb[MainThread].seeds[1]).val,
                     args.pattern, args.case_insensitive, args.position)
  /\ Accepted = {2}
  /\ sb[MainThread].ret = Some(CandidateAt(2))
  /\ stats.attempts = BATCH_SIZE

\* The result buffer as lane l's write leaves a fresh one: the ASCII codes of
\* the lane's eight hex characters, then zeros.
RecordOf(l) ==
  [i \in 1..RESULT_BUFFER_LEN |->
     IF i <= 2 * KERNEL_SEED_BYTES THEN AsciiOfHex(KernelSeedHex(l)[i]) ELSE 0]

\* The lanes that have won or are past winning the compare-exchange.
Writers == { l \in Lanes : gpu.lane[l] = "write" }

\* C16 (Spec): within a dispatch the found flag goes from false to true at
\* most once, by a lane's compare-exchange; at most one lane is ever writing;
\* the result buffer changes only by that lane's write and never again; and
\* when all lanes are done with the flag set, the buffer is exactly one
\* lane's record.
C16_GpuFirstMatchWins ==
  /\ [](Cardinality(Writers) <= 1)
  /\ [](gpu.pc = "running" /\ Writers # {} => gpu.found)
  /\ [][gpu.pc = "running" /\ gpu'.pc = "running" =>
          /\ gpu.found => gpu'.found
          /\ gpu.found => Writers' \subseteq Writers
          /\ gpu'.found /\ ~gpu.found =>
               \E l \in Lanes : gpu.lane[l] = "cas" /\ Writers' = {l}
          /\ gpu'.result_seed # gpu.result_seed =>
               /\ gpu.result_seed = ZeroBuffer
               /\ \E l \in Writers : gpu'.result_seed = RecordOf(l)]_vars
  /\ [](gpu.pc = "running" /\ gpu.found /\ (\A l \in Lanes : gpu.lane[l] = "done")
          => Cardinality({ l \in Lanes : gpu.result_seed = RecordOf(l) }) = 1)

C16_Witness ==
  /\ gpu.pc = "running"
  /\ \A l \in Lanes : gpu.lane[l] = "done"
  /\ gpu.found
  /\ gpu.attempts = NumLanes
  /\ gpu.result_seed = RecordOf(1)

\* C17 (Spec): the read-back never fails, and when the dispatch has set the
\* found flag the call returns the seed of the lane whose record is in the
\* result buffer, character for character, with the address derived from the
\* base key and that seed.
C17_ReadbackReturnsRecordedSeed ==
  /\ gpu.pc # "panicked"
  /\ gpu.pc = "ret" /\ gpu.found =>
       \E l \in Lanes :
          /\ gpu.result_seed = RecordOf(l)
          /\ gpu.ret = Some(<< KernelSeedHex(l),
                               create_with_seed(coord.base, KernelSeedHex(l)).val >>)
  /\ gpu.pc = "ret" /\ ~gpu.found => gpu.ret = None

\* C18 (Spec): a run that failed in its key-writing step has returned no
\* result and has not printed the RESULT_START .. RESULT_END block.
C18_PersistFailureUnreported ==
  coord.pc = "err_io" => coord.returned = None /\ coord.printed = None

\* C19 (Spec): on the CPU path the attempts the coordinator reads with its
\* result, prints and returns are BATCH_SIZE times the number of search_batch
\* calls it has made, the winning one included, and every value of
\* stats.attempts the monitor has sampled is a multiple of BATCH_SIZE.
C19_ResultAttemptsWholeBatches ==
  coord.metal_device = "None" =>
    /\ coord.result # None =>
         /\ coord.calls >= 1
         /\ coord.attempts = coord.calls * BATCH_SIZE
    /\ coord.printed # None =>
         coord.printed.val.attempts = coord.calls * BATCH_SIZE
    /\ coord.returned # None =>
         coord.returned.val.attempts = coord.calls * BATCH_SIZE
    /\ mon.last_attempts % BATCH_SIZE = 0
    /\ mon.last_attempts <= coord.calls * BATCH_SIZE

C19_Witness ==
  /\ coord.metal_device = "None"
  /\ coord.pc = "done"
  /\ coord.calls = 2
  /\ coord.returned # None
  /\ coord.returned.val.attempts = 2 * BATCH_SIZE
  /\ mon.last_attempts = 2 * BATCH_SIZE

\* C20 (Spec): every seed of a CPU batch has 32 characters, all of them from
\* the alphabet of 62 distinct alphanumeric characters; it is no longer than
\* the derivation's maximum seed length and the derivation accepts it; and
\* the scan is handed as many pairs as the batch has seeds, BATCH_SIZE.
C20_SeedsWellFormed ==
  /\ Cardinality({ CHARSET[k] : k \in 1..Len(CHARSET) }) = 62
  /\ \A k \in 1..Len(CHARSET) :
        IsIn(CHARSET[k], LOWER) \/ IsIn(CHARSET[k], UPPER) \/ IsIn(CHARSET[k], DIGITS)
  /\ \A i \in 1..Len(sb[MainThread].seeds) :
        LET seed == sb[MainThread].seeds[i]
        IN  /\ Len(seed) = 32
            /\ \A k \in 1..Len(seed) : IsIn(seed[k], CHARSET)
            /\ Len(seed) <= MAX_SEED_LEN
            /\ Derive(coord.base, seed).tag = "Ok"
  /\ sb[MainThread].seeds # << >> => Len(sb[MainThread].seeds) = BATCH_SIZE
  /\ sb[MainThread].pc \in {"count", "scan"} =>
        Len(sb[MainThread].addresses) = BATCH_SIZE

C20_Witness ==
  /\ sb[MainThread].pc = "scan"
  /\ Len(sb[MainThread].addresses) = BATCH_SIZE
  /\ sb[MainThread].seeds[1] # sb[MainThread].seeds[2]
  /\ \E k \in 1..32 : IsIn(sb[MainThread].seeds[1][k], LOWER)
  /\ \E k \in 1..32 : IsIn(sb[MainThread].seeds[1][k], UPPER)
  /\ \E k \in 1..32 : IsIn(sb[MainThread].seeds[1][k], DIGITS)

\* The two hex characters of a byte.
HexPair(byte) == << HEX_DIGITS[(byte \div 16) + 1], HEX_DIGITS[(byte % 16) + 1] >>

\* The seed text of lane l: the hex of the bytes l, l + 1, l + 2, l + 3.
LaneSeedText(l) ==
  HexPair(l % 256) \o HexPair((l + 1) % 256) \o HexPair((l + 2) % 256)
    \o HexPair((l + 3) % 256)

C22_SamplesNeverDecrease ==
  /\ [](mon.last_attempts <= stats.attempts)
  /\ [][mon.pc = "sleep" /\ mon'.pc = "check" =>
          /\ mon'.last_attempts = stats.attempts
          /\ mon'.last_attempts - mon.last_attempts >= 0]_vars

C22_Witness ==
  /\ mon.pc = "sleep"
  /\ mon.last_attempts = BATCH_SIZE
  /\ stats.attempts = 2 * BATCH_SIZE
  /\ sb[MainThread].pc = "scan"

====
